---- MODULE Spec2Model ----
(***************************************************************************)
(* Model of DLsite_DB_Crawler.py: the identifier codec (generate_id,       *)
(* extract_number_and_type, get_base_folder), the resumable enumeration of *)
(* main, the per-identifier pipeline of process_sequential_ids, and the    *)
(* three kinds of files the program keeps (the cursor file .temp, the      *)
(* catalog file dlsite_database.json, the image files).                    *)
(*                                                                         *)
(* Python strings are sequences of one-character strings, so that          *)
(* formatting and parsing are computed digit by digit.                     *)
(***************************************************************************)
EXTENDS Integers, Sequences, FiniteSets, TLC

(***************************************************************************)
(* Bounds of the model.  The source enumerates 0..499999 and               *)
(* 1000000..1369999 in batches of 1000; the model keeps the shape (two     *)
(* intervals, the second one starting at 1000000, several batches in the   *)
(* first) on shorter intervals and shorter batches.  As in the source, a   *)
(* batch spans several periods of the catalog writes, and that period is   *)
(* longer than the period of the cursor writes.                            *)
(***************************************************************************)
\* last number of the first interval (499999 in the source)
Range0End == 41
\* last number of the second interval (1369999 in the source)
Range1End == 1000001
\* numbers per batch (1000 in the source)
batch_size == 40
\* number of times the program is started in one behaviour
MaxRuns == 2
\* half-width of the windows of numbers the codec is applied to
Window == 12

(***************************************************************************)
(* Program constants.                                                      *)
(***************************************************************************)
\* first number of the second interval
Range1Start == 1000000
\* save_progress is called when number % 10 == 0
CheckpointEvery == 10
\* the catalog is written when number % 20 == 0
FlushEvery == 20
\* generate_id: largest number formatted on 6 digits
Max6 == 999999
\* generate_id: largest number formatted on 8 digits
Max8 == 9999999
\* get_base_folder: size of a shard
ShardSize == 1000

\* Python's None, comparable with strings
None == <<"None">>

(***************************************************************************)
(* Strings.                                                                *)
(***************************************************************************)
RJ == <<"R", "J">>
VJ == <<"V", "J">>

DigitChars == <<"0", "1", "2", "3", "4", "5", "6", "7", "8", "9">>
UpperChars == {"R", "J", "V", "B"}

IsDigit(c) == \E d \in 1..10 : DigitChars[d] = c
DigitValue(c) == (CHOOSE d \in 1..10 : DigitChars[d] = c) - 1

\* str(n) for n >= 0
RECURSIVE str(_)
str(n) == IF n < 10 THEN <<DigitChars[n + 1]>>
          ELSE Append(str(n \div 10), DigitChars[(n % 10) + 1])

\* s.zfill(width): pads on the left, never truncates
zfill(s, width) ==
    IF Len(s) >= width THEN s
    ELSE [i \in 1..(width - Len(s)) |-> "0"] \o s

\* int(s) for a string of decimal digits
RECURSIVE int(_)
int(s) == IF Len(s) = 0 THEN 0
          ELSE 10 * int(SubSeq(s, 1, Len(s) - 1)) + DigitValue(s[Len(s)])

\* s[:n]
Take(s, n) == SubSeq(s, 1, IF Len(s) < n THEN Len(s) ELSE n)
\* s[n:]
Drop(s, n) == SubSeq(s, n + 1, Len(s))

\* length of the longest prefix of s made of characters satisfying P
RECURSIVE SpanLen(_, _)
SpanLen(s, digits) ==
    IF Len(s) = 0 THEN 0
    ELSE IF (digits /\ IsDigit(s[1])) \/ (~digits /\ s[1] \in UpperChars)
         THEN 1 + SpanLen(Tail(s), digits)
         ELSE 0

(***************************************************************************)
(* Identifier codec.                                                       *)
(***************************************************************************)
\* generate_id with the 6-digit format in both branches
generate_id_06d(number, code_type) ==
    IF code_type \in {RJ, VJ} /\ 0 <= number /\ number <= Max8
    THEN code_type \o zfill(str(number), 6)
    ELSE code_type \o str(number)

generate_id(number, code_type) ==
    IF code_type \in {RJ, VJ} /\ 0 <= number /\ number <= Max6
    THEN code_type \o zfill(str(number), 6)
    ELSE IF code_type \in {RJ, VJ} /\ Max6 + 1 <= number /\ number <= Max8
    THEN code_type \o zfill(str(number), 8)
    ELSE code_type \o str(number)

extract_number_and_type(id_str) ==
    LET code_type == Take(id_str, 2)
    IN  IF code_type \in {RJ, VJ}
        THEN <<int(Drop(id_str, 2)), code_type>>
        ELSE <<0, <<>>>>

\* re.match(r'([A-Z]+)(\d+)', product_id): both groups are greedy and letters
\* and digits are disjoint, so group 1 is the longest run of capitals at the
\* start and group 2 the longest run of digits after it
get_base_folder(product_id) ==
    LET plen   == SpanLen(product_id, FALSE)
        rest   == Drop(product_id, plen)
        dlen   == SpanLen(rest, TRUE)
    IN  IF plen = 0 \/ dlen = 0 THEN None
        ELSE LET prefix   == Take(product_id, plen)
                 code_str == Take(rest, dlen)
                 code_num == int(code_str)
                 \* math.ceil(code_num / 1000) * 1000
                 base_num == ((code_num + ShardSize - 1) \div ShardSize) * ShardSize
                 padding_length == Len(code_str)
                 formatted_base == zfill(str(base_num), padding_length)
             IN  prefix \o formatted_base

(***************************************************************************)
(* The enumeration universe of main.                                       *)
(***************************************************************************)
rj_ranges == <<<<0, Range0End>>, <<Range1Start, Range1End>>>>
vj_range  == <<<<0, Range0End>>, <<Range1Start, Range1End>>>>

AllowList == {"maniax", "pro"}

\* numbers lo..hi of one family as identifier strings, in increasing order
IdsOf(lo, hi, code_type) == [k \in 1..(hi - lo + 1) |-> generate_id(lo + k - 1, code_type)]

RJIds == IdsOf(rj_ranges[1][1], rj_ranges[1][2], RJ) \o IdsOf(rj_ranges[2][1], rj_ranges[2][2], RJ)
VJIds == IdsOf(vj_range[1][1], vj_range[1][2], VJ) \o IdsOf(vj_range[2][1], vj_range[2][2], VJ)

Range(f) == {f[x] : x \in DOMAIN f}

(***************************************************************************)
(* The record provider (DlsiteAPI.get_work) and the image server.  The     *)
(* provider is a fixed function of the requested identifier; it answers    *)
(* with a work, with a 404 error, or with another error.  A work echoes a  *)
(* product_id: the requested string, or the same number padded to the      *)
(* other width.  The variable provider holds the answers for ProbeIds;     *)
(* every other identifier is answered with a 404 error.                    *)
(***************************************************************************)
\* numbers for which the provider may hold a work
ProbeNumbers == {1, Range1Start}
ProbeIds == {generate_id(n, RJ) : n \in ProbeNumbers}

\* the same number on the other width: 6 digits -> 8 digits, 8 digits -> 7
Repad(id_str) ==
    LET digits == Drop(id_str, 2)
    IN  Take(id_str, 2) \o (IF Len(digits) = 6 THEN <<"0", "0">> \o digits
                            ELSE Drop(digits, 1))

Echoes(id_str) == {id_str, Repad(id_str)}

NotFound == [kind |-> "notfound"]
OtherError == [kind |-> "error"]

Works(id_str) ==
    [kind : {"work"}, site_id : {"maniax", "pro", "girls"}, product_id : Echoes(id_str),
     work_name : {<<"T">>}, circle : {<<"C">>}, brand : {None},
     work_image : {None, <<"/", "/", "i">>}]

Responses(id_str) == {NotFound, OtherError} \cup Works(id_str)

Providers ==
    {f \in [ProbeIds -> UNION {Responses(id) : id \in ProbeIds}] :
        \A id \in ProbeIds : f[id] \in Responses(id)}


(***************************************************************************)
(* State.                                                                  *)
(***************************************************************************)
VARIABLES
    tempFile,       \* DLsite_DB/.temp: None (no file) or its content
    dbFile,         \* dlsite_database.json: absent, corrupt or a JSON value
    images,         \* the image files: [path, bytes]
    provider,       \* the provider's answer to each identifier
    pc,             \* where the process is; "stopped" when none is running
    database,       \* main's list of records
    start_number, rj_range_index, start_in_vj,
    i, batch_start, batch_end,      \* main's loops
    code_type, number, product_id,  \* process_sequential_ids
    runs,           \* how many times the program was started
    visits,         \* per run, the identifiers whose visit was started
    ends,           \* per finished run, how it ended
    ingested,       \* the provider answers that led to an append
    dl,             \* the call of download_image in the current visit: the url
                    \* it asks, the path, whether the file existed, whether
                    \* session.get was called, the value returned
    flushed,        \* the items of the last catalog write that completed
    queries,        \* the calls of api.get_work in the current visit
    known,          \* whether the current visit found an existing entry
    born,           \* for each record of database, the visit of this run that
                    \* appended it (its place in visits[runs]); 0 when loaded
    c_pc, c_number, c_type, c_id, c_parsed, c_folder   \* codec applications

files   == <<tempFile, dbFile, images>>
locals  == <<database, start_number, rj_range_index, start_in_vj, i, batch_start,
             batch_end, code_type, number, product_id>>
ghosts  == <<runs, visits, ends, ingested, dl>>
audit   == <<flushed, queries, known, born>>
crawler == <<files, provider, pc, locals, ghosts, audit>>
codec   == <<c_pc, c_number, c_type, c_id, c_parsed, c_folder>>
vars    == <<crawler, codec>>

(***************************************************************************)
(* Files.                                                                  *)
(***************************************************************************)
NoDbFile      == [state |-> "absent", items |-> <<>>]
\* a file json.load cannot parse
CorruptDbFile == [state |-> "corrupt", items |-> <<>>]
\* json.dump({"updated_at": timestamp, "items": database}, f); the timestamp
\* is left out
Snapshot(db)  == [state |-> "json", items |-> db]

\* DLsite_DB/<base_folder>/<product_id>/<product_id>_img_main.jpg
SavePath(id_str) == <<get_base_folder(id_str), id_str>>

Exists(path) == \E f \in images : f.path = path

load_progress == IF tempFile # None THEN tempFile ELSE None

\* a load that takes what it found in an unparseable file for one record
LoadDatabase_raw ==
    IF dbFile.state = "json"
    THEN dbFile.items
    ELSE <<[maker |-> <<>>, code |-> <<>>, title |-> <<>>, translate_title |-> <<>>]>>

\* main, lines 194-204: database is the "items" of the file; a file that
\* cannot be parsed leaves database = []
LoadDatabase ==
    IF dbFile.state = "json" THEN dbFile.items ELSE <<>>

\* if saved_id: (None and "" are false)
Truthy(s) == s # None /\ Len(s) > 0

(***************************************************************************)
(* main, lines 216-241: where to start.                                    *)
(***************************************************************************)
\* resuming at the checkpoint after the saved one
StartNumber_next_checkpoint(saved_id) ==
    IF Truthy(saved_id) /\ extract_number_and_type(saved_id)[2] \in {RJ, VJ}
    THEN extract_number_and_type(saved_id)[1] + CheckpointEvery
    ELSE 0

StartNumber(saved_id) ==
    IF Truthy(saved_id) /\ extract_number_and_type(saved_id)[2] \in {RJ, VJ}
    THEN extract_number_and_type(saved_id)[1]
    ELSE 0

RjRangeIndex(saved_id) ==
    IF Truthy(saved_id) /\ extract_number_and_type(saved_id)[2] = RJ
    THEN LET n == extract_number_and_type(saved_id)[1]
         IN  IF 0 <= n /\ n <= Range0End THEN 0
             ELSE IF Range1Start <= n /\ n <= Range1End THEN 1
             ELSE 0
    ELSE 0

StartInVj(saved_id) ==
    Truthy(saved_id) /\ extract_number_and_type(saved_id)[2] = VJ

(***************************************************************************)
(* fetch_work_info, fix_image_url, download_image.                         *)
(***************************************************************************)
NoWork == [kind |-> "none"]
Found(work) == work.kind = "work"

\* api.get_work(product_id); every exception is swallowed and gives None
fetch_work_info(id_str) ==
    IF id_str \in DOMAIN provider /\ provider[id_str].kind = "work"
    THEN provider[id_str]
    ELSE NoWork

fix_image_url(url) ==
    IF Truthy(url) /\ Take(url, 2) = <<"/", "/">>
    THEN <<"h", "t", "t", "p", "s", ":">> \o url
    ELSE url

\* The image files after download_image(session, url, save_path).  outcome is
\* what the network does: "ok" (status 200, body read), "status" (another
\* status), "connect_error" (session.get raises), "read_error" (status 200,
\* response.read() raises after open(save_path, 'wb') created the file).
download_image(url, save_path, outcome) ==
    IF ~Truthy(url) THEN images
    ELSE IF Exists(save_path) THEN images
    ELSE IF outcome = "ok" THEN images \cup {[path |-> save_path, bytes |-> "full"]}
    ELSE IF outcome = "read_error" THEN images \cup {[path |-> save_path, bytes |-> "empty"]}
    ELSE images

\* the value download_image returns
download_image_result(url, save_path, outcome) ==
    IF ~Truthy(url) THEN FALSE
    ELSE IF Exists(save_path) THEN TRUE
    ELSE outcome = "ok"

\* whether download_image calls session.get
download_image_gets(url, save_path) == Truthy(url) /\ ~Exists(save_path)

NoDownload == [called |-> FALSE, url |-> None, path |-> <<>>, existed |-> FALSE,
               get |-> FALSE, ok |-> FALSE]

DownloadOutcomes == {"ok", "status", "connect_error", "read_error"}

(***************************************************************************)
(* process_sequential_ids, lines 132-177.                                  *)
(***************************************************************************)
Unknown == <<"U", "n", "k", "n", "o", "w", "n">>
NaN == <<"N", "a", "N">>

\* x or "Unknown"
OrUnknown(x) == IF Truthy(x) THEN x ELSE Unknown

\* a lookup that never finds an entry
existing_entry_never(id_str) == FALSE

\* next((entry for entry in database if entry["code"] == product_id), None)
existing_entry(id_str) == \E k \in 1..Len(database) : database[k].code = id_str

\* the filter without the test of site_id
Accepted_any_site(work) == Found(work)

\* work and work.site_id in ['maniax', 'pro']
Accepted(work) == Found(work) /\ work.site_id \in AllowList

\* a maker taken from the circle whatever the prefix
Maker_circle_only(work) == OrUnknown(work.circle)

\* lines 154-159
Maker(work) ==
    IF Take(work.product_id, 2) = RJ THEN OrUnknown(work.circle)
    ELSE IF Take(work.product_id, 2) = VJ THEN OrUnknown(work.brand)
    ELSE Unknown

Entry(work) ==
    [maker |-> Maker(work), code |-> work.product_id, title |-> work.work_name,
     translate_title |-> NaN]

\* the identifier whose image the visit of id_str asks download_image for and
\* the url it passes; url None when the visit does not call download_image
Wanted(id_str) ==
    LET work == fetch_work_info(id_str)
    IN  IF existing_entry(id_str)
        THEN IF ~Exists(SavePath(id_str)) /\ Found(work) /\ Truthy(work.work_image)
             THEN [id |-> id_str, url |-> work.work_image]
             ELSE [id |-> id_str, url |-> None]
        ELSE IF Accepted(work) /\ Truthy(work.work_image)
             THEN [id |-> work.product_id, url |-> work.work_image]
             ELSE [id |-> id_str, url |-> None]

(***************************************************************************)
(* The process.  One identifier is visited in three steps, Visit (the      *)
(* cursor write), Ingest (the provider query, the image write, the append) *)
(* and Flush (the catalog write), because the process can be terminated    *)
(* between two of its writes; within a step everything the code does is    *)
(* done at once.                                                           *)
(***************************************************************************)
\* The process is gone: its memory with it.  how: "raised" (an exception left
\* main), or terminated from outside: "terminated" (between two writes),
\* "in_save_progress", "in_dump", "in_download" (inside a write).
Stop(how) ==
    /\ pc' = "stopped"
    /\ database' = <<>>
    /\ start_number' = 0
    /\ rj_range_index' = 0
    /\ start_in_vj' = FALSE
    /\ i' = 0
    /\ batch_start' = 0
    /\ batch_end' = 0
    /\ code_type' = <<>>
    /\ number' = 0
    /\ product_id' = <<>>
    /\ ends' = Append(ends, how)
    /\ queries' = 0
    /\ known' = FALSE
    /\ born' = <<>>
    /\ UNCHANGED flushed

Running == pc # "stopped"

\* main, lines 189-251: load the cursor and the catalog, compute the start
main ==
    /\ pc = "stopped"
    /\ runs < MaxRuns
    /\ runs' = runs + 1
    /\ visits' = Append(visits, <<>>)
    /\ database' = LoadDatabase
    /\ start_number' = StartNumber(load_progress)
    /\ rj_range_index' = RjRangeIndex(load_progress)
    /\ start_in_vj' = StartInVj(load_progress)
    /\ i' = RjRangeIndex(load_progress)
    /\ pc' = IF StartInVj(load_progress) THEN "vj" ELSE "rj_range"
    /\ born' = [k \in 1..Len(LoadDatabase) |-> 0]
    /\ UNCHANGED <<files, provider, batch_start, batch_end, code_type, number,
                   product_id, ends, ingested, dl, flushed, queries, known,
                   codec>>

\* main, lines 251-260: for i in range(rj_range_index, len(rj_ranges))
RjRange ==
    /\ pc = "rj_range"
    /\ \/ /\ i < Len(rj_ranges)
          /\ batch_start' = IF i = rj_range_index THEN start_number
                            ELSE rj_ranges[i + 1][1]
          /\ pc' = "rj_batch"
       \/ /\ i >= Len(rj_ranges)
          /\ pc' = "vj"
          /\ UNCHANGED batch_start
    /\ UNCHANGED <<files, provider, database, start_number, rj_range_index,
                   start_in_vj, i, batch_end, code_type, number, product_id, ghosts,
                   audit, codec>>

\* main, lines 263-266: for batch_start in range(current_start, range_end + 1,
\* batch_size), and the call of process_sequential_ids
RjBatch ==
    /\ pc = "rj_batch"
    /\ \/ /\ batch_start <= rj_ranges[i + 1][2]
          /\ batch_end' = IF batch_start + batch_size - 1 < rj_ranges[i + 1][2]
                          THEN batch_start + batch_size - 1
                          ELSE rj_ranges[i + 1][2]
          /\ code_type' = RJ
          /\ number' = batch_start
          /\ pc' = "visit"
          /\ UNCHANGED i
       \/ /\ batch_start > rj_ranges[i + 1][2]
          /\ i' = i + 1
          /\ pc' = "rj_range"
          /\ UNCHANGED <<batch_end, code_type, number>>
    /\ UNCHANGED <<files, provider, database, start_number, rj_range_index,
                   start_in_vj, batch_start, product_id, ghosts,
                   audit, codec>>

\* save_progress(current_id): the file holds current_id
save_progress(current_id) == current_id

\* a cursor written with the period of the catalog writes
CheckpointDue_with_flush(n) == n % FlushEvery = 0

\* if number % 10 == 0
CheckpointDue(n) == n % CheckpointEvery = 0

\* process_sequential_ids, lines 126-130
Visit ==
    /\ pc = "visit"
    /\ product_id' = generate_id(number, code_type)
    /\ tempFile' = IF CheckpointDue(number)
                   THEN save_progress(generate_id(number, code_type))
                   ELSE tempFile
    /\ visits' = [visits EXCEPT ![Len(visits)] =
                     Append(@, generate_id(number, code_type))]
    /\ dl' = NoDownload
    /\ queries' = 0
    /\ known' = FALSE
    /\ pc' = "ingest"
    /\ UNCHANGED <<dbFile, images, provider, database, start_number, rj_range_index,
                   start_in_vj, i, batch_start, batch_end, code_type, number,
                   runs, ends, ingested, flushed, born,
                   codec>>

\* an insertion at the head of the list
database_insert_front(db, entry) == <<entry>> \o db

\* database.append(entry)
database_append(db, entry) == Append(db, entry)

\* a visit that asks again when the provider did not return a work
Queries_retry(id_str) ==
    IF existing_entry(id_str)
    THEN IF ~Exists(SavePath(id_str)) THEN 1 ELSE 0
    ELSE IF Found(fetch_work_info(id_str)) THEN 1 ELSE 2

\* how many times the visit of id_str calls fetch_work_info: once for a new
\* identifier, once for a known one whose image file is missing
Queries(id_str) ==
    IF existing_entry(id_str)
    THEN IF ~Exists(SavePath(id_str)) THEN 1 ELSE 0
    ELSE 1

\* process_sequential_ids, lines 132-177
Ingest ==
    /\ pc = "ingest"
    /\ \E outcome \in DownloadOutcomes :
        LET work == fetch_work_info(product_id)
            want == Wanted(product_id)
        IN  IF Truthy(want.url) /\ get_base_folder(want.id) = None
            THEN \* os.path.join("DLsite_DB", None, ...) raises TypeError
                 /\ Stop("raised")
                 /\ UNCHANGED <<files, provider, runs, visits, ingested, dl,
                   codec>>
            ELSE /\ images' = download_image(want.url, SavePath(want.id), outcome)
                 /\ database' = IF ~existing_entry(product_id) /\ Accepted(work)
                                THEN database_append(database, Entry(work))
                                ELSE database
                 /\ ingested' = IF ~existing_entry(product_id) /\ Accepted(work)
                                THEN ingested \cup {[requested |-> product_id,
                                                     site_id |-> work.site_id,
                                                     code |-> work.product_id]}
                                ELSE ingested
                 /\ dl' = IF Truthy(want.url)
                          THEN [called |-> TRUE, url |-> fix_image_url(want.url),
                                path |-> SavePath(want.id),
                                existed |-> Exists(SavePath(want.id)),
                                get |-> download_image_gets(want.url, SavePath(want.id)),
                                ok |-> download_image_result(want.url,
                                           SavePath(want.id), outcome)]
                          ELSE NoDownload
                 /\ born' = IF ~existing_entry(product_id) /\ Accepted(work)
                            THEN Append(born, Len(visits[runs]))
                            ELSE born
                 /\ queries' = Queries(product_id)
                 /\ known' = existing_entry(product_id)
                 /\ pc' = "flush"
                 /\ UNCHANGED <<tempFile, dbFile, provider, start_number,
                                rj_range_index, start_in_vj, i, batch_start,
                                batch_end, code_type, number, product_id, runs,
                                visits, ends, flushed, codec>>

\* a catalog written every second period
FlushDue_every_other(n) == n % (2 * FlushEvery) = 0

\* if number % 20 == 0
FlushDue(n) == n % FlushEvery = 0

\* process_sequential_ids, lines 179-186, and the end of the loop body
Flush ==
    /\ pc = "flush"
    /\ dbFile' = IF FlushDue(number) THEN Snapshot(database) ELSE dbFile
    /\ flushed' = IF FlushDue(number) THEN database ELSE flushed
    /\ \/ /\ number < batch_end
          /\ number' = number + 1
          /\ pc' = "visit"
       \/ /\ number >= batch_end
          /\ pc' = "batch_save"
          /\ UNCHANGED number
    /\ UNCHANGED <<tempFile, images, provider, database, start_number,
                   rj_range_index, start_in_vj, i, batch_start, batch_end,
                   code_type, product_id, ghosts, queries, known, born,
                   codec>>

\* main, lines 268-273: the save after each batch, and the next batch_start
BatchSave ==
    /\ pc = "batch_save"
    /\ dbFile' = Snapshot(database)
    /\ flushed' = database
    /\ batch_start' = batch_start + batch_size
    /\ pc' = "rj_batch"
    /\ UNCHANGED <<tempFile, images, provider, database, start_number,
                   rj_range_index, start_in_vj, i, batch_end, code_type, number,
                   product_id, ghosts, queries, known, born,
                   codec>>

\* main, lines 276-282.  vj_range is a list of two tuples, so vj_end =
\* vj_range[1] is the tuple (1000000, 1369999) and range(vj_start, vj_end + 1,
\* batch_size) raises TypeError when it evaluates vj_end + 1 (a tuple plus an
\* int), whatever vj_start is.  The exception leaves main: lines 283-299 (the
\* VJ batches, the removal of the cursor file) are never executed.
vj_end == vj_range[2]

\* an end of main that removes the cursor file on its way out
VjRange_cleanup ==
    /\ pc = "vj"
    /\ Len(vj_end) = 2
    /\ tempFile' = None
    /\ Stop("raised")
    /\ UNCHANGED <<dbFile, images, provider, runs, visits, ingested, dl,
                   codec>>

\* main, lines 275-282: range(vj_start, vj_end + 1, batch_size) adds 1 to a
\* tuple and raises TypeError
VjRange ==
    /\ pc = "vj"
    /\ Len(vj_end) = 2
    /\ Stop("raised")
    /\ UNCHANGED <<files, provider, runs, visits, ingested, dl,
                   codec>>

(***************************************************************************)
(* Termination of the process from outside, at any point.  A termination   *)
(* between open(path, 'w') and the end of the write leaves the file        *)
(* truncated.                                                              *)
(***************************************************************************)
Terminate ==
    /\ Running
    /\ Stop("terminated")
    /\ UNCHANGED <<files, provider, runs, visits, ingested, dl,
                   codec>>

\* inside save_progress
TerminateInSaveProgress ==
    /\ pc = "visit"
    /\ CheckpointDue(number)
    /\ tempFile' = <<>>
    /\ visits' = [visits EXCEPT ![Len(visits)] =
                     Append(@, generate_id(number, code_type))]
    /\ Stop("in_save_progress")
    /\ UNCHANGED <<dbFile, images, provider, runs, ingested, dl,
                   codec>>

\* inside json.dump, lines 184-185 and 270-271
TerminateInDump ==
    /\ \/ pc = "flush" /\ FlushDue(number)
       \/ pc = "batch_save"
    /\ dbFile' = CorruptDbFile
    /\ Stop("in_dump")
    /\ UNCHANGED <<tempFile, images, provider, runs, visits, ingested, dl,
                   codec>>

\* inside download_image, after open(save_path, 'wb')
TerminateInDownload ==
    /\ pc = "ingest"
    /\ Truthy(Wanted(product_id).url)
    /\ get_base_folder(Wanted(product_id).id) # None
    /\ ~Exists(SavePath(Wanted(product_id).id))
    /\ images' = images \cup {[path |-> SavePath(Wanted(product_id).id),
                               bytes |-> "empty"]}
    /\ Stop("in_download")
    /\ UNCHANGED <<tempFile, dbFile, provider, runs, visits, ingested, dl,
                   codec>>

(***************************************************************************)
(* Specification of the crawler.                                           *)
(***************************************************************************)
CodecIdle ==
    /\ c_pc = "idle"
    /\ c_number = 0
    /\ c_type = <<>>
    /\ c_id = <<>>
    /\ c_parsed = <<0, <<>>>>
    /\ c_folder = None

CrawlerInit ==
    /\ tempFile = None
    /\ dbFile = NoDbFile
    /\ images = {}
    /\ pc = "stopped"
    /\ database = <<>>
    /\ start_number = 0
    /\ rj_range_index = 0
    /\ start_in_vj = FALSE
    /\ i = 0
    /\ batch_start = 0
    /\ batch_end = 0
    /\ code_type = <<>>
    /\ number = 0
    /\ product_id = <<>>
    /\ runs = 0
    /\ visits = <<>>
    /\ ends = <<>>
    /\ ingested = {}
    /\ dl = NoDownload
    /\ flushed = <<>>
    /\ queries = 0
    /\ known = FALSE
    /\ born = <<>>

Init ==
    /\ CrawlerInit
    /\ provider \in Providers
    /\ CodecIdle

Next ==
    \/ main
    \/ RjRange
    \/ RjBatch
    \/ Visit
    \/ Ingest
    \/ Flush
    \/ BatchSave
    \/ VjRange
    \/ Terminate
    \/ TerminateInSaveProgress
    \/ TerminateInDump
    \/ TerminateInDownload

Spec == Init /\ [][Next]_vars

(***************************************************************************)
(* Vocabulary of the claims about the crawler.                             *)
(***************************************************************************)
\* s is a sequence without repetition
Injective(s) == \A j, k \in 1..Len(s) : j # k => s[j] # s[k]

\* number of visits of id over all runs
Count(id) ==
    Cardinality({<<r, k>> \in (1..Len(visits)) \X (1..Len(RJIds)) :
                    k <= Len(visits[r]) /\ visits[r][k] = id})

Visited == UNION {Range(visits[r]) : r \in 1..Len(visits)}

\* run r has ended, and not by a termination from outside
EndedByItself(r) == r <= Len(ends) /\ ends[r] = "raised"
\* run r was terminated from outside
Terminated(r) == r <= Len(ends) /\ ends[r] # "raised"

\* the first run was terminated after it started an identifier (K is the last
\* one it started), and the second run, resumed from the cursor file, ran to
\* its end
StoppedAndResumed ==
    /\ Len(ends) = 2
    /\ Terminated(1)
    /\ Len(visits[1]) >= 1
    /\ EndedByItself(2)

(***************************************************************************)
(* C1 as stated.  Resume equivalence: a run terminated after starting K    *)
(* and the run resumed from the persisted cursor visit together the same   *)
(* set of identifiers as one uninterrupted run from an empty cursor, each  *)
(* of them exactly once.                                                   *)
(***************************************************************************)
C1_ResumeEquivalence ==
    /\ (Len(ends) = 1 /\ EndedByItself(1)) => Range(visits[1]) = Range(RJIds)
    /\ StoppedAndResumed =>
          /\ Visited = Range(RJIds)
          /\ \A id \in Visited : Count(id) = 1

(***************************************************************************)
(* C1 amended.  The two runs together visit the same set of identifiers as *)
(* the uninterrupted run, each at least once and at most twice, and the    *)
(* identifiers visited twice are those from the resume point (the          *)
(* identifier of the cursor file, or the first identifier when the file is *)
(* absent or empty) through K.                                             *)
(***************************************************************************)
C1_ResumeRevisits ==
    /\ (Len(ends) = 1 /\ EndedByItself(1)) => visits[1] = RJIds
    /\ StoppedAndResumed =>
          /\ Visited = Range(RJIds)
          /\ Injective(visits[1])
          /\ Injective(visits[2])
          /\ \E j \in 1..Len(visits[1]) :
                /\ visits[1][j] = visits[2][1]
                /\ Range(visits[1]) \cap Range(visits[2]) =
                       {visits[1][k] : k \in j..Len(visits[1])}

\* the first run was terminated while it processed RJ000012, the second one
\* resumed from RJ000010 and reached the end of the RJ intervals
C1_Witness ==
    /\ StoppedAndResumed
    /\ visits[1][Len(visits[1])] = generate_id(12, RJ)
    /\ visits[2][1] = generate_id(10, RJ)
    /\ Count(generate_id(11, RJ)) = 2

(***************************************************************************)
(* C2.  Idempotent re-ingestion: a second run over identifiers the first   *)
(* run visited, with the provider unchanged and the catalog the first run  *)
(* wrote, adds and changes no record, and asks no image whose file exists. *)
(* The first run here ran to its end, so the catalog file holds all of its *)
(* records; the second run loads it and visits again the identifiers from  *)
(* the cursor on.  No record added means that the list in memory stays the *)
(* list of the file.                                                       *)
(***************************************************************************)
C2_IdempotentReingestion ==
    (runs = 2 /\ EndedByItself(1) /\ Running) =>
        /\ dbFile.state = "json"
        /\ database = dbFile.items
        /\ dl.get => ~dl.existed

(***************************************************************************)
(* C3.  Crash recovery loses no record: the first run is terminated        *)
(* between two catalog flushes; once the second run has passed the point   *)
(* of termination, the catalog holds a record for every identifier whose   *)
(* visit is over and for which the provider returns an allow-listed work.  *)
(***************************************************************************)
\* K has been visited by the second run and a later identifier was started
PassedTermination ==
    /\ runs = 2
    /\ Len(ends) = 1
    /\ ends[1] \in {"terminated", "in_save_progress", "in_download"}
    /\ Len(visits[1]) >= 1
    /\ \E j \in 1..Len(visits[2]) :
          visits[2][j] = visits[1][Len(visits[1])] /\ j < Len(visits[2])

\* the identifiers whose visit is over
VisitOver == Visited \ (IF pc \in {"visit", "ingest"} THEN {product_id} ELSE {})

C3_CrashRecovery ==
    PassedTermination =>
        \A id \in VisitOver :
            Accepted(fetch_work_info(id)) =>
                \E k \in 1..Len(database) :
                    database[k].code = fetch_work_info(id).product_id

(***************************************************************************)
(* C4.  Completion: a run that is not terminated from outside ends at the  *)
(* end of main, after it enumerated the RJ intervals and the VJ intervals, *)
(* wrote the catalog and removed the cursor file.                          *)
(***************************************************************************)
C4_Completion ==
    (pc = "stopped" /\ runs >= 1 /\ ~Terminated(runs)) =>
        /\ ends[runs] = "returned"
        /\ tempFile = None
        /\ dbFile.state = "json"
        /\ Range(VJIds) \subseteq Range(visits[runs])

(***************************************************************************)
(* C5.  Catalog key uniqueness: no two records of the list in memory have  *)
(* the same code.                                                          *)
(***************************************************************************)
C5_UniqueCodes ==
    \A j, k \in 1..Len(database) : j # k => database[j].code # database[k].code

(***************************************************************************)
(* C6.  Acceptance filter: every record the pipeline appended comes from a *)
(* provider answer whose site_id is maniax or pro; nothing in the list or  *)
(* in the catalog file comes from an answer with another site_id.          *)
(***************************************************************************)
FromAllowedAnswer(record) ==
    \E g \in ingested :
        /\ g.site_id \in AllowList
        /\ g.code = record.code
        /\ Accepted(provider[g.requested])
        /\ record = Entry(provider[g.requested])

C6_AcceptanceFilter ==
    /\ \A g \in ingested : g.site_id \in AllowList
    /\ \A k \in 1..Len(database) : FromAllowedAnswer(database[k])
    /\ \A k \in 1..Len(dbFile.items) : FromAllowedAnswer(dbFile.items[k])

\* the provider holds an allow-listed work for RJ000009 and a work of another
\* site for RJ01000000; both were visited, only the first is in the list
C6_Witness ==
    /\ pc = "flush"
    /\ number = Range1Start
    /\ provider[product_id].kind = "work"
    /\ provider[product_id].site_id = "girls"
    /\ Len(database) = 1
    /\ database[1].code = generate_id(1, RJ)

(***************************************************************************)
(* C7.  Planner sequence: with no cursor file, the identifiers an          *)
(* uninterrupted run visits are, in order, the RJ intervals then the VJ    *)
(* intervals, each in increasing order, none skipped or repeated.          *)
(***************************************************************************)
IsPrefix(s, t) == Len(s) <= Len(t) /\ \A k \in 1..Len(s) : s[k] = t[k]

C7_PlannerSequence ==
    /\ runs = 1 => IsPrefix(visits[1], RJIds \o VJIds)
    /\ (Len(ends) = 1 /\ EndedByItself(1)) => visits[1] = RJIds \o VJIds

(***************************************************************************)
(* C10.  Asset fetch failure leaves no file: when download_image asked the *)
(* server and returned False, no file exists at the path.                  *)
(***************************************************************************)
C10_FailedDownloadLeavesNoFile ==
    (pc = "flush" /\ dl.called /\ dl.get /\ ~dl.ok) => ~Exists(dl.path)

(***************************************************************************)
(* Specification of the codec: generate_id, extract_number_and_type and    *)
(* get_base_folder applied, for both families, to the numbers around the   *)
(* ends of the domain and around every power of ten (the shard size and    *)
(* the change of width among them).                                        *)
(***************************************************************************)
\* the numbers where str(number) gains a digit
PowersOfTen == {10, 100, 1000, 10000, 100000, 1000000}

CodecNumbers ==
    {n \in (0..Window) \cup ((Max8 - Window)..Max8)
            \cup UNION {(p - 1 - Window)..(p + Window) : p \in PowersOfTen} :
        0 <= n /\ n <= Max8}

CodecInit ==
    /\ CrawlerInit
    /\ provider = [id \in ProbeIds |-> NotFound]
    /\ c_pc = "input"
    /\ c_number \in CodecNumbers
    /\ c_type \in {RJ, VJ}
    /\ c_id = <<>>
    /\ c_parsed = <<0, <<>>>>
    /\ c_folder = None

CodecGenerate ==
    /\ c_pc = "input"
    /\ c_id' = generate_id(c_number, c_type)
    /\ c_pc' = "generated"
    /\ UNCHANGED <<crawler, c_number, c_type, c_parsed, c_folder>>

CodecExtract ==
    /\ c_pc = "generated"
    /\ c_parsed' = extract_number_and_type(c_id)
    /\ c_pc' = "extracted"
    /\ UNCHANGED <<crawler, c_number, c_type, c_id, c_folder>>

CodecBaseFolder ==
    /\ c_pc = "extracted"
    /\ c_folder' = get_base_folder(c_id)
    /\ c_pc' = "done"
    /\ UNCHANGED <<crawler, c_number, c_type, c_id, c_parsed>>

CodecNext ==
    \/ CodecGenerate
    \/ CodecExtract
    \/ CodecBaseFolder

CodecSpec == CodecInit /\ [][CodecNext]_vars

(***************************************************************************)
(* C8.  Codec round trip: for both families and every number of the        *)
(* domain, extract_number_and_type(generate_id(number, family)) is         *)
(* (number, family), and generate_id writes the number on 6 digits below   *)
(* 1000000 and on 8 digits from 1000000 on.                                *)
(***************************************************************************)
C8_CodecRoundTrip ==
    /\ c_pc \in {"generated", "extracted", "done"} =>
          /\ Take(c_id, 2) = c_type
          /\ Len(c_id) - 2 = IF c_number < 1000000 THEN 6 ELSE 8
          /\ \A k \in 3..Len(c_id) : IsDigit(c_id[k])
    /\ c_pc \in {"extracted", "done"} => c_parsed = <<c_number, c_type>>

C8_Witness ==
    /\ c_pc = "extracted"
    /\ c_number >= 1000000
    /\ c_type = VJ
    /\ c_parsed = <<c_number, VJ>>

(***************************************************************************)
(* C9.  Shard key: for every identifier generate_id produces in the        *)
(* domain, get_base_folder gives the family prefix followed by the least   *)
(* multiple of 1000 that is >= the number, written on as many digits as    *)
(* the identifier's number.                                                *)
(***************************************************************************)
C9_ShardMonotonicity ==
    c_pc = "done" =>
        /\ c_folder # None
        /\ Take(c_folder, 2) = c_type
        /\ LET m == int(Drop(c_folder, 2))
           IN  /\ m % 1000 = 0
               /\ m >= c_number
               /\ m - c_number < 1000
        /\ Len(c_folder) = Len(c_id)

(***************************************************************************)
(* The catalog across terminations                                         *)
(***************************************************************************)

\* every record of s is a record of t
Contains(t, s) == \A k \in 1..Len(s) : \E j \in 1..Len(t) : t[j] = s[k]

\* the run in progress follows a terminated run and has loaded its catalog
\* but not yet visited an identifier
LoadedAfterTermination ==
    /\ Running
    /\ runs >= 2
    /\ Terminated(runs - 1)
    /\ visits[runs] = <<>>

\* C11: the catalog loaded by the run that follows a termination, at any
\* point of the previous run, contains every record of the last catalog
\* write completed before the termination.
C11_FlushedDataSurvives ==
    LoadedAfterTermination => Contains(database, flushed)

(***************************************************************************)
(* The visit of one identifier                                             *)
(***************************************************************************)

\* id_str is the code of a record of the in-memory catalog
InCatalog(id_str) == \E k \in 1..Len(database) : database[k].code = id_str

\* what the provider answers when it is asked for id_str
Answer(id_str) == IF id_str \in DOMAIN provider THEN provider[id_str] ELSE NotFound

\* the step that carries the visit of product_id from its start to its end
VisitStep == pc = "ingest" /\ pc' = "flush"

\* C12: the visit of an identifier that is already a code of the catalog
\* leaves the catalog unchanged, asks the provider at most once and only if
\* the image file of the identifier does not exist, and calls download_image
\* only if that answer is a work with a non-empty work_image.
C12_AssetRepairFrame ==
    [][(VisitStep /\ InCatalog(product_id)) =>
          /\ database' = database
          /\ queries' <= 1
          /\ (queries' = 1 => ~Exists(SavePath(product_id)))
          /\ (dl'.called =>
                /\ queries' = 1
                /\ Answer(product_id).kind = "work"
                /\ Truthy(Answer(product_id).work_image))]_vars

\* a visit of a known identifier that asked the provider and fetched the image
C12_Witness ==
    /\ pc = "flush"
    /\ known
    /\ InCatalog(product_id)
    /\ queries = 1
    /\ dl.get

\* C13: within a run the in-memory catalog only grows at its end: after
\* every step of a run the catalog before the step is a prefix of the
\* catalog after it, so no record is deleted, moved or changed.
C13_AppendOnly ==
    [][(Running /\ pc' # "stopped") => IsPrefix(database, database')]_vars

\* a run that appended a second record behind an earlier one
C13_Witness ==
    /\ pc = "flush"
    /\ ~known
    /\ Len(database) = 2
    /\ database[2].code # database[1].code

\* the provider has no work for id_str: not found, or any other error
Fails(id_str) == Answer(id_str).kind \in {"notfound", "error"}

\* the process was ended from outside in this step
TerminatedNow == pc' = "stopped" /\ ends'[Len(ends')] # "raised"

\* C14: when the provider has no work for an identifier that is not in the
\* catalog (not found, or any other error), the visit asks the provider
\* exactly once, leaves the catalog and the image files unchanged, and the
\* run goes on to the next identifier or to the end of the batch; it does
\* not end by an exception.
C14_ProviderFailure ==
    [][/\ (pc = "ingest" /\ ~InCatalog(product_id) /\ Fails(product_id)) =>
            \/ /\ pc' = "flush"
               /\ queries' = 1
               /\ database' = database
               /\ images' = images
            \/ TerminatedNow
       /\ (pc = "flush" /\ ~known /\ Fails(product_id)) =>
            \/ pc' = "visit" /\ number' = number + 1
            \/ pc' = "batch_save" /\ number = batch_end
            \/ TerminatedNow]_vars

\* the run went on to the next identifier after the provider answered the
\* previous one with an error
C14_Witness ==
    /\ pc = "ingest"
    /\ Len(visits[runs]) >= 2
    /\ Answer(visits[runs][Len(visits[runs]) - 1]).kind = "error"
    /\ ~InCatalog(visits[runs][Len(visits[runs]) - 1])
    /\ queries = 0

\* C15: when the catalog file exists at startup but cannot be parsed, the
\* run does not end in main: it starts the enumeration with an empty
\* in-memory catalog.
C15_CatalogLoadFailure ==
    [][(pc = "stopped" /\ dbFile.state = "corrupt" /\ pc' # "stopped") =>
          /\ pc' = "rj_range"
          /\ database' = <<>>
          /\ runs' = runs + 1]_vars

\* a run that started from an unparseable catalog file, which had held
\* records, and is visiting identifiers with the catalog it built from empty
C15_Witness ==
    /\ pc = "ingest"
    /\ runs = 2
    /\ ends[1] = "in_dump"
    /\ flushed # <<>>
    /\ dbFile.state = "corrupt"
    /\ database = <<>>

(***************************************************************************)
(* The record of a work.  The provider of this specification answers for   *)
(* one identifier, with every combination of the fields the record is made *)
(* of: an echoed identifier of either family or of neither, circle and     *)
(* brand present or absent.                                                *)
(***************************************************************************)
RecordProbe == generate_id(1, RJ)

RecordEchoes == {RecordProbe, VJ \o Drop(RecordProbe, 2), <<"B", "J">> \o Drop(RecordProbe, 2)}

RecordWorks ==
    [kind : {"work"}, site_id : {"maniax", "pro", "girls"}, product_id : RecordEchoes,
     work_name : {<<"T">>}, circle : {None, <<"C">>}, brand : {None, <<"B">>},
     work_image : {None, <<"/", "/", "i">>}]

RecordProviders == [{RecordProbe} -> {NotFound, OtherError} \cup RecordWorks]

RecordInit ==
    /\ CrawlerInit
    /\ provider \in RecordProviders
    /\ CodecIdle

RecordSpec == RecordInit /\ [][Next]_vars

\* the maker of the record of a work, as the claim states it
StatedMaker(work) ==
    LET prefix == Take(work.product_id, 2)
        field  == IF prefix = RJ THEN work.circle
                  ELSE IF prefix = VJ THEN work.brand
                  ELSE None
    IN  IF field = None THEN Unknown ELSE field

\* C16: every record the visit of an identifier appends has the code the
\* provider echoed, the provider's title, the translate-title "NaN", and as
\* maker the circle when the echoed code starts with RJ, the brand when it
\* starts with VJ, and "Unknown" when that field is absent or the prefix is
\* neither.
C16_RecordConstruction ==
    [][(Running /\ database' # database /\ pc' # "stopped") =>
          /\ Len(database') = Len(database) + 1
          /\ Answer(product_id).kind = "work"
          /\ LET entry == database'[Len(database')]
                 work  == Answer(product_id)
             IN  /\ entry.code = work.product_id
                 /\ entry.title = work.work_name
                 /\ entry.translate_title = NaN
                 /\ entry.maker = StatedMaker(work)]_vars

\* a record whose maker is the brand of a work of the VJ family
C16_Witness ==
    /\ pc = "flush"
    /\ ~known
    /\ Len(database) = 1
    /\ Take(database[1].code, 2) = VJ
    /\ database[1].maker = <<"B">>
    /\ Answer(product_id).circle = <<"C">>

(***************************************************************************)
(* The cursor file                                                         *)
(***************************************************************************)

\* every identifier of every interval of both families has been visited, by
\* this run or by the runs before it
Complete == Range(RJIds) \cup Range(VJIds) \subseteq Visited

\* no run has written the cursor yet
NoCheckpointYet == \A r \in 1..Len(visits) : visits[r] = <<>>

\* C17: the cursor file is removed only in a state where every identifier
\* of both families has been visited; in every other state after the first
\* write of the cursor the file exists.
C17_CursorDeletion ==
    [][/\ (tempFile # None /\ tempFile' = None) => Complete'
       /\ tempFile' = None => NoCheckpointYet' \/ Complete']_vars

\* a run that went through both RJ intervals has ended, the VJ intervals are
\* not visited, and the cursor file is there
C17_Witness ==
    /\ pc = "stopped"
    /\ runs >= 1
    /\ ends[runs] = "raised"
    /\ Range(RJIds) \subseteq Range(visits[runs])
    /\ ~Complete
    /\ tempFile # None

\* an identifier is being processed: its visit has passed the cursor write
\* of line 130 and has not reached the end of the loop body
Processing == pc \in {"ingest", "flush"}

\* C18: while the identifier with number n of family F is being processed,
\* the cursor file holds generate_id(n - (n mod 10), F): the cursor is never
\* past the identifier being processed and never more than 9 behind it.
C18_CursorLag ==
    Processing =>
        /\ tempFile = generate_id(number - (number % 10), code_type)
        /\ extract_number_and_type(tempFile)[1] <= number
        /\ number - extract_number_and_type(tempFile)[1] <= 9

\* a run resumed from the cursor RJ000010 is processing RJ000019, nine
\* identifiers past the cursor
C18_Witness ==
    /\ Processing
    /\ runs = 2
    /\ start_number = 10
    /\ number = 19
    /\ tempFile = generate_id(10, RJ)

(***************************************************************************)
(* The catalog file and the catalog in memory                              *)
(***************************************************************************)

\* the items a load of the catalog file returns: none for an absent or an
\* unparseable file
PersistedItems == IF dbFile.state = "json" THEN dbFile.items ELSE <<>>

\* the records of the catalog in memory that the catalog file does not hold
Missing == (Len(PersistedItems) + 1)..Len(database)

\* the number of visits of this run from the one that appended record k to
\* the last one started, both included
Age(k) == Len(visits[runs]) - born[k] + 1

\* the catalog file holds a prefix of the catalog in memory, and every
\* record it misses was appended during the last n visits
Lag(n) ==
    Running =>
        /\ IsPrefix(PersistedItems, database)
        /\ \A k \in Missing : born[k] >= 1 /\ Age(k) <= n

\* the end of the visit of a multiple of 20, or the end of a batch
WriteStep ==
    /\ \/ pc = "flush" /\ number % 20 = 0
       \/ pc = "batch_save"
    /\ pc' # "stopped"

\* the catalog file is a document whose items are the catalog in memory
Synced == dbFile.state = "json" /\ dbFile.items = database

\* C19 (as stated): after the visit of every multiple of 20 and after every
\* batch the items of the catalog file equal the catalog in memory; at any
\* other point the file holds a prefix of it that misses only records
\* appended during the last 19 visits.
C19_FlushLag19 ==
    [][(WriteStep => Synced') /\ Lag(19)']_vars

\* C19 (amended): the same with the last 20 visits, the visit in progress
\* included: between the catalog write of 20k and the one of 20k + 20 the
\* visits of 20k + 1 .. 20k + 20 append before the next write.
C19_FlushLag ==
    [][(WriteStep => Synced') /\ Lag(20)']_vars

\* the visit of RJ000020 has appended or skipped and has not yet written the
\* catalog; the file misses the record appended twenty visits ago by the
\* visit of RJ000001
C19_Witness ==
    /\ pc = "flush"
    /\ number = 20
    /\ Missing # {}
    /\ \E k \in Missing : Age(k) = 20 /\ database[k].code = generate_id(1, RJ)

====
